---- MODULE Spec2Model ----
(***************************************************************************)
(* 1-wire bit transceiver for ATTiny85 (src/onewire.c).                    *)
(*                                                                         *)
(* The foreground (caller, onewire0_writebyte / onewire0_readbyte and the  *)
(* bit primitives) is modelled statement by statement with a program       *)
(* counter; the TIMER0_COMPA interrupt handler runs to completion between  *)
(* any two foreground statements.  Timer0 is modelled at the level of its  *)
(* compare-match event: while the clock runs, the counter reaches OCR0A at *)
(* a moment the foreground does not control.                               *)
(***************************************************************************)
EXTENDS Naturals, Integers, Sequences, FiniteSets, TLC

\* ---- program constants ------------------------------------------------
GAP_A == 6
GAP_B == 64
GAP_C == 60
GAP_D == 10
GAP_E == 9
GAP_F == 55

OW0_IDLE == 0
OW0_WRITE0_LOW == 1
OW0_WRITE0_RELEASE == 2
OW0_WRITE1_LOW == 3
OW0_WRITE1_RELEASE == 4
OW0_READ_LOW == 5
OW0_READ_SAMPLE == 6
OW0_READ_RELEASE == 7

\* uint8_t
ByteWidth == 8
Byte == 0 .. (2^ByteWidth - 1)

\* number of bit slots the byte routines loop over (bit < 8)
BitsPerByte == 8

\* ---- state ---------------------------------------------------------------
VARIABLES
    state,      \* onewire0.state
    bit,        \* onewire0.bit
    DDRB,       \* PIN bit of DDRB: TRUE = pin is an output (drives the bus)
    PORTB,      \* PIN bit of PORTB: output latch
    WGM01,      \* TCCR0A.WGM01: CTC mode
    CS01,       \* TCCR0B.CS01: timer clock running at CK/8
    OCR0A,      \* compare register A
    OCR0B,      \* compare register B
    TCNT0,      \* timer counter
    OCF0A,      \* TIFR.OCF0A: compare-match interrupt pending
    OCIE0A,     \* TIMSK.OCIE0A: compare-match interrupt enabled
    pc,         \* foreground position
    op,         \* byte routine running or last completed: none/write/read
    byte,       \* local `byte` of the byte routine
    idx,        \* local loop counter `bit` of the byte routine
    value,      \* argument of _writebit
    rbit,       \* value returned by _readbit
    ret,        \* value returned by onewire0_readbyte
    arg,        \* history: byte passed to onewire0_writebyte
    slots,      \* history: states armed by the bit primitives in this call
    samples,    \* history: bits the handler stored in this call
    hops,       \* history: non-idle handler invocations since the slot was armed
    drivenAtSample, \* history: the master drove the pin when the sample was taken
    isrFrom,    \* history: state seen by the most recent handler invocation
    lowTicks,   \* history: timer ticks of this slot with the pin driven low
    highTicks,  \* history: timer ticks of this slot with the pin released
    sampleAt    \* history: value of highTicks when the sample was taken

hw == <<DDRB, PORTB, WGM01, CS01, OCR0A, OCR0B, TCNT0, OCF0A, OCIE0A>>
locals == <<byte, idx, value, rbit, ret>>
hist == <<arg, slots, samples, hops, drivenAtSample, isrFrom, lowTicks, highTicks, sampleAt>>
vars == <<state, bit, hw, pc, op, locals, hist>>

\* ---- pure helpers --------------------------------------------------------
BitOf(v, i) == (v \div (2^i)) % 2

\* byte |= 0x80
Or80(b) == IF BitOf(b, 7) = 1 THEN b ELSE b + 128

\* byte >>= 1
Shr1(b) == b \div 2

\* level of the bus seen through PINB: the master's output latch when it
\* drives the pin, otherwise whatever the peer (or the pull-up) puts there
PINB(peer) == IF DDRB THEN (IF PORTB THEN 1 ELSE 0) ELSE peer

\* levels the peer device (or the pull-up) can hold the bus at
Level == {0, 1}

\* ---- initial state: power-on reset, .bss zeroed ---------------------------
Init ==
    /\ state = OW0_IDLE
    /\ bit = 0
    /\ DDRB = FALSE
    /\ PORTB = FALSE
    /\ WGM01 = FALSE
    /\ CS01 = FALSE
    /\ OCR0A = 0
    /\ OCR0B = 0
    /\ TCNT0 = 0
    /\ OCF0A = FALSE
    /\ OCIE0A = FALSE
    /\ pc = "boot"
    /\ op = "none"
    /\ byte = 0
    /\ idx = 0
    /\ value = 0
    /\ rbit = 0
    /\ ret = 0
    /\ arg = 0
    /\ slots = <<>>
    /\ samples = <<>>
    /\ hops = 0
    /\ drivenAtSample = FALSE
    /\ isrFrom = -1
    /\ lowTicks = 0
    /\ highTicks = 0
    /\ sampleAt = 0

\* ---- onewire0_init --------------------------------------------------------
\* a slip: `TCCR0B |= PRESCALER` for `TCCR0B &= ~PRESCALER`
onewire0_init_ClockOn ==
    /\ pc = "boot"
    /\ state' = OW0_IDLE
    /\ DDRB' = FALSE
    /\ PORTB' = FALSE
    /\ WGM01' = TRUE
    /\ CS01' = TRUE
    /\ OCR0B' = 255
    /\ OCIE0A' = TRUE
    /\ pc' = "main"
    /\ UNCHANGED <<bit, OCR0A, TCNT0, OCF0A, op, locals, hist>>

onewire0_init ==
    /\ pc = "boot"
    /\ state' = OW0_IDLE
    /\ DDRB' = FALSE
    /\ PORTB' = FALSE
    /\ WGM01' = TRUE
    /\ CS01' = FALSE
    /\ OCR0B' = 255
    /\ OCIE0A' = TRUE
    /\ pc' = "main"
    /\ UNCHANGED <<bit, OCR0A, TCNT0, OCF0A, op, locals, hist>>

\* ---- caller ---------------------------------------------------------------
\* The caller makes one call after another.  A call starts from fresh locals
\* (they are dead between calls) and a fresh history.
CallWriteByte ==
    /\ pc = "main"
    /\ \E v \in Byte :
        /\ byte' = v
        /\ arg' = v
    /\ op' = "write"
    /\ idx' = 0
    /\ value' = 0
    /\ rbit' = 0
    /\ ret' = 0
    /\ slots' = <<>>
    /\ samples' = <<>>
    /\ hops' = 0
    /\ drivenAtSample' = FALSE
    /\ isrFrom' = -1
    /\ lowTicks' = 0
    /\ highTicks' = 0
    /\ sampleAt' = 0
    /\ pc' = "st_tifr"
    /\ UNCHANGED <<state, bit, hw>>

CallReadByte ==
    /\ pc = "main"
    /\ op' = "read"
    /\ byte' = 0
    /\ arg' = 0
    /\ idx' = 0
    /\ value' = 0
    /\ rbit' = 0
    /\ ret' = 0
    /\ slots' = <<>>
    /\ samples' = <<>>
    /\ hops' = 0
    /\ drivenAtSample' = FALSE
    /\ isrFrom' = -1
    /\ lowTicks' = 0
    /\ highTicks' = 0
    /\ sampleAt' = 0
    /\ pc' = "st_tifr"
    /\ UNCHANGED <<state, bit, hw>>

\* ---- _starttimer ----------------------------------------------------------
StartTimerClear ==
    /\ pc = "st_tifr"
    /\ OCF0A' = FALSE
    /\ pc' = "st_tcnt"
    /\ UNCHANGED <<state, bit, DDRB, PORTB, WGM01, CS01, OCR0A, OCR0B, TCNT0, OCIE0A,
                   op, locals, hist>>

StartTimerReset ==
    /\ pc = "st_tcnt"
    /\ TCNT0' = 0
    /\ pc' = "st_tccr"
    /\ UNCHANGED <<state, bit, DDRB, PORTB, WGM01, CS01, OCR0A, OCR0B, OCF0A, OCIE0A,
                   op, locals, hist>>

\* a slip: the prescaler bits are never set, the counter stands still
StartTimerRun_NoClock ==
    /\ pc = "st_tccr"
    /\ idx' = 0
    /\ pc' = IF op = "write" THEN "wb_loop" ELSE "rb_loop"
    /\ UNCHANGED <<state, bit, hw, op, byte, value, rbit, ret, hist>>

StartTimerRun ==
    /\ pc = "st_tccr"
    /\ CS01' = TRUE
    /\ idx' = 0
    /\ pc' = IF op = "write" THEN "wb_loop" ELSE "rb_loop"
    /\ UNCHANGED <<state, bit, DDRB, PORTB, WGM01, OCR0A, OCR0B, TCNT0, OCF0A, OCIE0A,
                   op, byte, value, rbit, ret, hist>>

\* ---- _release / _pulllow --------------------------------------------------
\* a slip: `DDRB |= PIN` for `DDRB &= ~( PIN )`
_release_Drives == TRUE

_release == FALSE

_pulllow == TRUE

\* ---- _writebit ------------------------------------------------------------
\* compare value and state selected by `if (value)`
\* a slip in the branch: the two low intervals exchanged
WriteBitCompare_Swapped(v) == IF v # 0 THEN GAP_C ELSE GAP_A

WriteBitCompare(v) == IF v # 0 THEN GAP_A ELSE GAP_C

\* a slip in the branch: the two slot kinds exchanged
WriteBitState_Swapped(v) == IF v # 0 THEN OW0_WRITE0_LOW ELSE OW0_WRITE1_LOW

WriteBitState(v) == IF v # 0 THEN OW0_WRITE1_LOW ELSE OW0_WRITE0_LOW

WriteBitResetCounter ==
    /\ pc = "w_tcnt"
    /\ TCNT0' = 0
    /\ pc' = "w_ocr"
    /\ UNCHANGED <<state, bit, DDRB, PORTB, WGM01, CS01, OCR0A, OCR0B, OCF0A, OCIE0A,
                   op, locals, hist>>

WriteBitSetCompare ==
    /\ pc = "w_ocr"
    /\ OCR0A' = WriteBitCompare(value)
    /\ pc' = "w_state"
    /\ UNCHANGED <<state, bit, DDRB, PORTB, WGM01, CS01, OCR0B, TCNT0, OCF0A, OCIE0A,
                   op, locals, hist>>

WriteBitArm ==
    /\ pc = "w_state"
    /\ state' = WriteBitState(value)
    /\ slots' = Append(slots, WriteBitState(value))
    /\ hops' = 0
    /\ lowTicks' = 0
    /\ highTicks' = 0
    /\ sampleAt' = 0
    /\ pc' = "w_pull"
    /\ UNCHANGED <<bit, hw, op, locals, arg, samples, drivenAtSample, isrFrom>>

WriteBitPullLow ==
    /\ pc = "w_pull"
    /\ DDRB' = _pulllow
    /\ pc' = "w_wait"
    /\ UNCHANGED <<state, bit, PORTB, WGM01, CS01, OCR0A, OCR0B, TCNT0, OCF0A, OCIE0A,
                   op, locals, hist>>

\* a slip: the busy-wait left without looking at the state
WriteBitWait_NoWait ==
    /\ pc = "w_wait"
    /\ pc' = "wb_shift"
    /\ UNCHANGED <<state, bit, hw, op, locals, hist>>

\* while (onewire0.state != OW0_IDLE) { };  the loop is left once Idle is read
WriteBitWait ==
    /\ pc = "w_wait"
    /\ state = OW0_IDLE
    /\ pc' = "wb_shift"
    /\ UNCHANGED <<state, bit, hw, op, locals, hist>>

\* ---- onewire0_writebyte ---------------------------------------------------
\* for (...; bit < 8; ...) _writebit(byte & 1);
WriteByteLoop ==
    /\ pc = "wb_loop"
    /\ IF idx < BitsPerByte
         THEN /\ value' = byte % 2
              /\ pc' = "w_tcnt"
         ELSE /\ value' = value
              /\ pc' = "main"
    /\ UNCHANGED <<state, bit, hw, op, byte, idx, rbit, ret, hist>>

\* byte >>= 1; bit++
WriteByteShift ==
    /\ pc = "wb_shift"
    /\ byte' = Shr1(byte)
    /\ idx' = idx + 1
    /\ pc' = "wb_loop"
    /\ UNCHANGED <<state, bit, hw, op, value, rbit, ret, hist>>

\* ---- _readbit -------------------------------------------------------------
ReadBitResetCounter ==
    /\ pc = "r_tcnt"
    /\ TCNT0' = 0
    /\ pc' = "r_ocr"
    /\ UNCHANGED <<state, bit, DDRB, PORTB, WGM01, CS01, OCR0A, OCR0B, OCF0A, OCIE0A,
                   op, locals, hist>>

\* a slip: the compare register is left as the previous slot set it
ReadBitSetCompare_Stale ==
    /\ pc = "r_ocr"
    /\ pc' = "r_state"
    /\ UNCHANGED <<state, bit, hw, op, locals, hist>>

ReadBitSetCompare ==
    /\ pc = "r_ocr"
    /\ OCR0A' = GAP_A
    /\ pc' = "r_state"
    /\ UNCHANGED <<state, bit, DDRB, PORTB, WGM01, CS01, OCR0B, TCNT0, OCF0A, OCIE0A,
                   op, locals, hist>>

ReadBitArm ==
    /\ pc = "r_state"
    /\ state' = OW0_READ_LOW
    /\ slots' = Append(slots, OW0_READ_LOW)
    /\ hops' = 0
    /\ lowTicks' = 0
    /\ highTicks' = 0
    /\ sampleAt' = 0
    /\ pc' = "r_pull"
    /\ UNCHANGED <<bit, hw, op, locals, arg, samples, drivenAtSample, isrFrom>>

ReadBitPullLow ==
    /\ pc = "r_pull"
    /\ DDRB' = _pulllow
    /\ pc' = "r_wait"
    /\ UNCHANGED <<state, bit, PORTB, WGM01, CS01, OCR0A, OCR0B, TCNT0, OCF0A, OCIE0A,
                   op, locals, hist>>

\* a slip: the busy-wait of _readbit left without looking at the state
ReadBitWait_NoWait ==
    /\ pc = "r_wait"
    /\ pc' = "r_ret"
    /\ UNCHANGED <<state, bit, hw, op, locals, hist>>

ReadBitWait ==
    /\ pc = "r_wait"
    /\ state = OW0_IDLE
    /\ pc' = "r_ret"
    /\ UNCHANGED <<state, bit, hw, op, locals, hist>>

\* return onewire0.bit;
ReadBitReturn ==
    /\ pc = "r_ret"
    /\ rbit' = bit
    /\ pc' = "rb_acc"
    /\ UNCHANGED <<state, bit, hw, op, byte, idx, value, ret, hist>>

\* ---- onewire0_readbyte ----------------------------------------------------
\* if (_readbit()) { byte |= 0x80; }  byte >>= 1;
Accumulate(b, r) == Shr1(IF r # 0 THEN Or80(b) ELSE b)

\* for (...; bit < 8; ...) _readbit();  ...  return byte;
ReadByteLoop ==
    /\ pc = "rb_loop"
    /\ IF idx < BitsPerByte
         THEN /\ ret' = ret
              /\ pc' = "r_tcnt"
         ELSE /\ ret' = byte
              /\ pc' = "main"
    /\ UNCHANGED <<state, bit, hw, op, byte, idx, value, rbit, hist>>

ReadByteAccumulate ==
    /\ pc = "rb_acc"
    /\ byte' = Accumulate(byte, rbit)
    /\ idx' = idx + 1
    /\ pc' = "rb_loop"
    /\ UNCHANGED <<state, bit, hw, op, value, rbit, ret, hist>>

\* ---- timer0 ---------------------------------------------------------------
\* While the clock runs the counter reaches OCR0A: the compare-match flag is
\* raised and, in CTC mode, the counter restarts from 0.
CompareMatch ==
    /\ CS01
    /\ OCF0A' = TRUE
    /\ TCNT0' = IF WGM01 THEN 0 ELSE OCR0A
    /\ UNCHANGED <<state, bit, DDRB, PORTB, WGM01, CS01, OCR0A, OCR0B, OCIE0A,
                   pc, op, locals, hist>>

\* ---- ISR(TIMER0_COMPA_vect) -----------------------------------------------
\* a slip: `break` missing after `case OW0_IDLE:`, control falls into the
\* next case and leaves the switch in Write0Release
IsrNextState_Fallthrough(s) ==
    CASE s = OW0_IDLE -> OW0_WRITE0_RELEASE
      [] s = OW0_WRITE0_LOW -> OW0_WRITE0_RELEASE
      [] s = OW0_WRITE0_RELEASE -> OW0_IDLE
      [] s = OW0_WRITE1_LOW -> OW0_WRITE1_RELEASE
      [] s = OW0_WRITE1_RELEASE -> OW0_IDLE
      [] s = OW0_READ_LOW -> OW0_READ_SAMPLE
      [] s = OW0_READ_SAMPLE -> OW0_READ_RELEASE
      [] s = OW0_READ_RELEASE -> OW0_IDLE
      [] OTHER -> s

\* a slip: the Low cases set Idle at once, the release phase is skipped
IsrNextState_SkipRelease(s) ==
    CASE s = OW0_IDLE -> OW0_IDLE
      [] s = OW0_WRITE0_LOW -> OW0_IDLE
      [] s = OW0_WRITE0_RELEASE -> OW0_IDLE
      [] s = OW0_WRITE1_LOW -> OW0_IDLE
      [] s = OW0_WRITE1_RELEASE -> OW0_IDLE
      [] s = OW0_READ_LOW -> OW0_READ_SAMPLE
      [] s = OW0_READ_SAMPLE -> OW0_READ_RELEASE
      [] s = OW0_READ_RELEASE -> OW0_IDLE
      [] OTHER -> s

\* a slip: the Write0Low case continues in the other write family
IsrNextState_CrossFamily(s) ==
    CASE s = OW0_IDLE -> OW0_IDLE
      [] s = OW0_WRITE0_LOW -> OW0_WRITE1_RELEASE
      [] s = OW0_WRITE0_RELEASE -> OW0_IDLE
      [] s = OW0_WRITE1_LOW -> OW0_WRITE1_RELEASE
      [] s = OW0_WRITE1_RELEASE -> OW0_IDLE
      [] s = OW0_READ_LOW -> OW0_READ_SAMPLE
      [] s = OW0_READ_SAMPLE -> OW0_READ_RELEASE
      [] s = OW0_READ_RELEASE -> OW0_IDLE
      [] OTHER -> s

\* next state of the switch
IsrNextState(s) ==
    CASE s = OW0_IDLE -> OW0_IDLE
      [] s = OW0_WRITE0_LOW -> OW0_WRITE0_RELEASE
      [] s = OW0_WRITE0_RELEASE -> OW0_IDLE
      [] s = OW0_WRITE1_LOW -> OW0_WRITE1_RELEASE
      [] s = OW0_WRITE1_RELEASE -> OW0_IDLE
      [] s = OW0_READ_LOW -> OW0_READ_SAMPLE
      [] s = OW0_READ_SAMPLE -> OW0_READ_RELEASE
      [] s = OW0_READ_RELEASE -> OW0_IDLE
      [] OTHER -> s

\* a slip: the two read intervals exchanged
IsrCompare_Swapped(s, old) ==
    CASE s = OW0_WRITE0_LOW -> GAP_D
      [] s = OW0_WRITE1_LOW -> GAP_B
      [] s = OW0_READ_LOW -> GAP_F
      [] s = OW0_READ_SAMPLE -> GAP_E
      [] OTHER -> old

\* a slip: the ReadLow case does not reprogram the compare register
IsrCompare_NoSampleWait(s, old) ==
    CASE s = OW0_WRITE0_LOW -> GAP_D
      [] s = OW0_WRITE1_LOW -> GAP_B
      [] s = OW0_READ_SAMPLE -> GAP_F
      [] OTHER -> old

\* compare register after the switch (`old` where the case leaves it alone)
IsrCompare(s, old) ==
    CASE s = OW0_WRITE0_LOW -> GAP_D
      [] s = OW0_WRITE1_LOW -> GAP_B
      [] s = OW0_READ_LOW -> GAP_E
      [] s = OW0_READ_SAMPLE -> GAP_F
      [] OTHER -> old

\* the cases that call _release()
IsrReleases(s) == s \in {OW0_WRITE0_LOW, OW0_WRITE1_LOW, OW0_READ_LOW}

\* a slip: the pin is also sampled in the ReadLow case
IsrSamples_AlsoLow(s) == s \in {OW0_READ_LOW, OW0_READ_SAMPLE}

\* the case that stores the pin level
IsrSamples(s) == s = OW0_READ_SAMPLE

ISR ==
    /\ OCF0A
    /\ OCIE0A
    /\ OCF0A' = FALSE
    /\ state' = IsrNextState(state)
    /\ OCR0A' = IsrCompare(state, OCR0A)
    /\ DDRB' = IF IsrReleases(state) THEN _release ELSE DDRB
    /\ IF IsrSamples(state)
         THEN \E peer \in Level :
              /\ bit' = PINB(peer)
              /\ samples' = Append(samples, PINB(peer))
              /\ drivenAtSample' = DDRB
              /\ sampleAt' = highTicks
         ELSE UNCHANGED <<bit, samples, drivenAtSample, sampleAt>>
    /\ hops' = IF state # OW0_IDLE THEN hops + 1 ELSE hops
    /\ isrFrom' = state
    /\ UNCHANGED <<PORTB, WGM01, CS01, OCR0B, TCNT0, OCIE0A, pc, op, locals, arg, slots,
                   lowTicks, highTicks>>

\* ---- specification --------------------------------------------------------
Foreground ==
    \/ onewire0_init
    \/ CallWriteByte
    \/ CallReadByte
    \/ StartTimerClear
    \/ StartTimerReset
    \/ StartTimerRun
    \/ WriteByteLoop
    \/ WriteBitResetCounter
    \/ WriteBitSetCompare
    \/ WriteBitArm
    \/ WriteBitPullLow
    \/ WriteBitWait
    \/ WriteByteShift
    \/ ReadByteLoop
    \/ ReadBitResetCounter
    \/ ReadBitSetCompare
    \/ ReadBitArm
    \/ ReadBitPullLow
    \/ ReadBitWait
    \/ ReadBitReturn
    \/ ReadByteAccumulate

Next == Foreground \/ CompareMatch \/ ISR

Spec == Init /\ [][Next]_vars

\* ---- ideal timing ----------------------------------------------------------
\* One timer clock (CK/8).  The counter counts up from the value last written;
\* when it reaches OCR0A the compare-match flag is raised and, in CTC mode, the
\* counter restarts from 0, so that a phase started with the counter at 0
\* lasts as many ticks as the compare value programmed for it.
Tick ==
    /\ CS01
    /\ LET n == (TCNT0 + 1) % (2^ByteWidth)
       IN  IF n = OCR0A
             THEN /\ TCNT0' = IF WGM01 THEN 0 ELSE n
                  /\ OCF0A' = TRUE
             ELSE /\ TCNT0' = n
                  /\ OCF0A' = OCF0A
    /\ lowTicks' = IF state # OW0_IDLE /\ DDRB /\ ~PORTB THEN lowTicks + 1 ELSE lowTicks
    /\ highTicks' = IF state # OW0_IDLE /\ ~DDRB THEN highTicks + 1 ELSE highTicks
    /\ UNCHANGED <<state, bit, DDRB, PORTB, WGM01, CS01, OCR0A, OCR0B, OCIE0A,
                   pc, op, locals, arg, slots, samples, hops, drivenAtSample, isrFrom,
                   sampleAt>>

\* an enabled compare-match interrupt is pending
IrqPending == OCF0A /\ OCIE0A

\* the foreground has nothing to execute: it is outside the driver, or spins
\* in a busy-wait on a non-idle state
ForegroundWaits ==
    \/ pc = "main"
    \/ pc \in {"w_wait", "r_wait"} /\ state # OW0_IDLE

\* Timing as the driver intends it: the statements of the foreground and the
\* handler take no timer tick (a tick is 8 processor cycles), and a pending
\* interrupt is served before the foreground goes on.
TimedForeground == ~IrqPending /\ Foreground

TimedTick == ~IrqPending /\ ForegroundWaits /\ Tick

NextTimed == TimedForeground \/ TimedTick \/ ISR

SpecTimed == Init /\ [][NextTimed]_vars

\* The statements of a routine that has been entered: the processor keeps
\* executing them.  The caller is free never to call again.
Routine ==
    \/ StartTimerClear
    \/ StartTimerReset
    \/ StartTimerRun
    \/ WriteByteLoop
    \/ WriteBitResetCounter
    \/ WriteBitSetCompare
    \/ WriteBitArm
    \/ WriteBitPullLow
    \/ WriteBitWait
    \/ WriteByteShift
    \/ ReadByteLoop
    \/ ReadBitResetCounter
    \/ ReadBitSetCompare
    \/ ReadBitArm
    \/ ReadBitPullLow
    \/ ReadBitWait
    \/ ReadBitReturn
    \/ ReadByteAccumulate

\* The running timer keeps reaching its compare value and a pending, enabled
\* interrupt is served.
SpecFair ==
    /\ Init /\ [][Next]_vars
    /\ WF_vars(Routine)
    /\ WF_vars(CompareMatch)
    /\ WF_vars(ISR)

\* ---- properties -----------------------------------------------------------
W1 == OW0_WRITE1_LOW
W0 == OW0_WRITE0_LOW

\* the slot kind that announces bit value b
SlotFor(b) == IF b = 1 THEN W1 ELSE W0

\* value of a bit sequence read LSB first: sum of q[i+1] * 2^i
RECURSIVE LsbValue(_)
LsbValue(q) == IF q = <<>> THEN 0 ELSE Head(q) + 2 * LsbValue(Tail(q))

\* the bits a compliant peer running onewire0_writebyte(v) puts on the bus,
\* in time order: byte & 1, then byte >>= 1, for each of the slots
RECURSIVE PeerBits(_, _)
PeerBits(v, n) == IF n = 0 THEN <<>> ELSE <<v % 2>> \o PeerBits(Shr1(v), n - 1)

WriteByteReturned == pc = "main" /\ op = "write"
ReadByteReturned == pc = "main" /\ op = "read"

\* C1: onewire0_writebyte(v) arms exactly 8 write slots, and the i-th slot in
\* time order (i = 0..7) is armed as Write1Low when bit i of v is 1 and as
\* Write0Low when it is 0 (least-significant bit first); for v = 0xA5 the
\* slots are 1,0,1,0,0,1,0,1.
C1_WriteByteLsbFirst ==
    op = "write" =>
        /\ Len(slots) <= 8
        /\ \A i \in 1 .. Len(slots) : slots[i] = SlotFor(BitOf(arg, i - 1))
        /\ (pc = "main" => Len(slots) = 8)
        /\ (pc = "main" /\ arg = 165 => slots = <<W1, W0, W1, W0, W0, W1, W0, W1>>)

C1_Witness == WriteByteReturned /\ arg = 165 /\ Len(slots) = 8

\* C2: onewire0_readbyte performs exactly 8 read slots and returns the byte
\* assembled LSB first from the 8 sampled bits b0..b7 (b0 sampled first): the
\* sum over i of b_i * 2^i.
C2_ReadByteLsbFirst ==
    ReadByteReturned =>
        /\ Len(slots) = 8
        /\ Len(samples) = 8
        /\ ret = LsbValue(samples)

\* C3: round trip: when the bits sampled in the 8 read slots are the bits a
\* compliant peer emits for v, in the order onewire0_writebyte(v) emits them,
\* onewire0_readbyte returns v.
C3_RoundTrip ==
    ReadByteReturned =>
        \A v \in Byte : samples = PeerBits(v, BitsPerByte) => ret = v

\* C4: after onewire0_init, Operation State is Idle at entry to and at return
\* from every bit and byte routine: it is non-idle only between the arming
\* statement of a bit primitive and the exit of its busy-wait.
InSlot == {"w_pull", "w_wait", "r_pull", "r_wait"}

C4_IdleOutsideSlot == (pc # "boot" /\ pc \notin InSlot) => state = OW0_IDLE

C4_Witness == pc = "rb_acc" /\ idx = 3 /\ state = OW0_IDLE /\ isrFrom = OW0_READ_RELEASE

\* C5: while the compare-match interrupt keeps firing, every call of a byte
\* routine returns, and every armed slot brings Operation State back to Idle.
C5_CallsReturn ==
    /\ (pc = "st_tifr") ~> (pc = "main")
    /\ (state # OW0_IDLE) ~> (state = OW0_IDLE)

C5_Witness == ReadByteReturned /\ Len(slots) = 8 /\ state = OW0_IDLE

\* C6: when _writebit returns (and so when onewire0_writebyte returns) both
\* handler transitions of the slot have occurred and the master does not
\* drive the pin, in every interleaving of foreground and handler.
C6_WriteBitReleased ==
    (pc = "wb_shift" \/ WriteByteReturned) => (hops = 2 /\ ~DDRB)

\* C7: the bit _readbit returns is the one sample the handler stored in that
\* slot (exactly one between arming and return), and the sample was taken
\* while the master was not driving the bus.
C7_ReadBitFresh ==
    pc = "rb_acc" =>
        /\ Len(samples) = idx + 1
        /\ rbit = samples[Len(samples)]
        /\ ~drivenAtSample

\* C8: after onewire0_init returns and until a byte routine is called:
\* Operation State is Idle, the pin is an input with its latch low, the timer
\* is in CTC mode with its clock stopped, the compare-match interrupt is
\* enabled, and no slot has been armed.
C8_AfterInit ==
    (pc = "main" /\ op = "none") =>
        /\ state = OW0_IDLE
        /\ ~DDRB
        /\ ~PORTB
        /\ WGM01
        /\ ~CS01
        /\ OCIE0A
        /\ slots = <<>>
        /\ isrFrom = -1

C8_Witness == pc = "main" /\ op = "none" /\ WGM01 /\ OCIE0A /\ OCR0B = 255

\* C9: every handler invocation takes exactly the transition of the state
\* table: Write0Low -> Write0Release with interval D and the bus released,
\* Write1Low -> Write1Release with B and the bus released, ReadLow ->
\* ReadSample with E and the bus released, ReadSample -> ReadRelease with F
\* and the pin level stored in Sampled Bit, the three Release states -> Idle,
\* Idle -> Idle; nothing else.
PinLevelStored ==
    /\ bit' \in Level
    /\ (DDRB /\ ~PORTB => bit' = 0)
    /\ (DDRB /\ PORTB => bit' = 1)

TableStep ==
    \/ state = OW0_WRITE0_LOW /\ state' = OW0_WRITE0_RELEASE /\ OCR0A' = GAP_D /\ ~DDRB'
    \/ state = OW0_WRITE1_LOW /\ state' = OW0_WRITE1_RELEASE /\ OCR0A' = GAP_B /\ ~DDRB'
    \/ state = OW0_READ_LOW /\ state' = OW0_READ_SAMPLE /\ OCR0A' = GAP_E /\ ~DDRB'
    \/ state = OW0_READ_SAMPLE /\ state' = OW0_READ_RELEASE /\ OCR0A' = GAP_F
            /\ PinLevelStored
    \/ state \in {OW0_WRITE0_RELEASE, OW0_WRITE1_RELEASE, OW0_READ_RELEASE}
            /\ state' = OW0_IDLE
    \/ state = OW0_IDLE /\ state' = OW0_IDLE

C9_HandlerTable == [][ISR => TableStep]_vars

C9_Witness == isrFrom = OW0_READ_SAMPLE /\ state = OW0_READ_RELEASE /\ OCR0A = GAP_F

\* C10: a handler invocation while Operation State is Idle changes neither
\* Operation State, Sampled Bit, the pin direction nor the compare register,
\* and arms no slot; the timer keeps running after a byte routine, so such
\* invocations do occur between slots and between calls.
C10_IdleHandlerNoOp ==
    [][(ISR /\ state = OW0_IDLE) =>
          UNCHANGED <<state, bit, DDRB, PORTB, OCR0A, slots, samples, pc>>]_vars

C10_Witness == isrFrom = OW0_IDLE /\ WriteByteReturned /\ CS01 /\ state = OW0_IDLE

\* C11: single writer per phase.  The foreground statements that store to
\* Operation State (onewire0_init and the arming statements of _writebit and
\* _readbit) execute only while it is Idle, the arming statements store a
\* non-idle value, and every step that changes Operation State while it is
\* non-idle, in particular every return to Idle, is a handler invocation.
ForegroundStore == onewire0_init \/ WriteBitArm \/ ReadBitArm

SlotHops(k) == IF k = OW0_READ_LOW THEN 3 ELSE 2

Arming == WriteBitArm \/ ReadBitArm

C12_Sequential ==
    [][Arming =>
          /\ state = OW0_IDLE
          /\ Len(slots) = idx
          /\ (slots # <<>> => hops = SlotHops(slots[Len(slots)]))
          /\ (slots # <<>> => isrFrom \in {OW0_IDLE, OW0_WRITE0_RELEASE,
                                           OW0_WRITE1_RELEASE, OW0_READ_RELEASE})]_vars

C12_Witness ==
    /\ Len(slots) = 3
    /\ idx = 2
    /\ pc = "w_pull"
    /\ state \in {OW0_WRITE0_LOW, OW0_WRITE1_LOW}
    /\ hops = 0

\* C13: the bit primitives drive the bus low before they arm the state
\* machine: whenever Operation State is an armed Low state (Write0Low,
\* Write1Low, ReadLow) the master already drives the pin low, so no handler
\* invocation can find a Low state with the bus not yet pulled low.
LowStates == {OW0_WRITE0_LOW, OW0_WRITE1_LOW, OW0_READ_LOW}

BusDrivenLow == DDRB /\ ~PORTB

C13_PullLowBeforeArm == state \in LowStates => BusDrivenLow

SampleStored == Len(samples') > Len(samples) \/ bit' # bit

C16_SampledBitWriter ==
    [][/\ bit' \in {0, 1}
       /\ (SampleStored =>
              /\ ISR
              /\ state = OW0_READ_SAMPLE
              /\ Len(samples') = Len(samples) + 1
              /\ bit' = samples'[Len(samples')])
       /\ ((ISR /\ state = OW0_READ_SAMPLE) => Len(samples') = Len(samples) + 1)
       /\ (ReadBitArm => Len(samples) = idx)
       /\ (ReadBitReturn => Len(samples) = idx + 1)
       /\ (op = "write" /\ op' = "write" => bit' = bit /\ samples' = <<>>)]_vars

C16_Witness ==
    /\ pc = "rb_acc"
    /\ idx = 7
    /\ Len(samples) = 8
    /\ samples[7] = 0
    /\ bit = 1

\* C17: the handler never starts driving the bus: in Write0Low, Write1Low and
\* ReadLow it releases the pin, in every other state it leaves the pin
\* direction as it is, and it never touches the output latch; the only steps
\* after which the pin is driven while it was not before are the _pulllow()
\* statements of _writebit and _readbit.
C17_HandlerOnlyReleases ==
    [][/\ (ISR =>
              /\ (DDRB' => DDRB)
              /\ PORTB' = PORTB
              /\ (state \in LowStates => ~DDRB')
              /\ (state \notin LowStates => DDRB' = DDRB))
       /\ ((~DDRB /\ DDRB') => (WriteBitPullLow \/ ReadBitPullLow))]_vars

C17_Witness ==
    /\ isrFrom = OW0_WRITE1_LOW
    /\ state = OW0_WRITE1_RELEASE
    /\ ~DDRB
    /\ pc = "w_wait"

\* C18: the master drives the pin low only while Operation State is
\* Write0Low, Write1Low or ReadLow; in Idle, Write0Release, Write1Release,
\* ReadSample and ReadRelease the pin is not driven, in every reachable state
\* of every interleaving.
C18_DrivenOnlyInLow == DDRB => state \in LowStates

\* C19: each slot stays in its own family of states and takes a fixed number
\* of handler invocations: a write-0 slot is in Write0Low after 0, in
\* Write0Release after 1 and Idle after 2; a write-1 slot likewise in
\* Write1Low, Write1Release, Idle; a read slot in ReadLow, ReadSample,
\* ReadRelease and Idle after 0, 1, 2 and 3.
SlotWalk(k) ==
    CASE k = OW0_WRITE0_LOW -> <<OW0_WRITE0_LOW, OW0_WRITE0_RELEASE, OW0_IDLE>>
      [] k = OW0_WRITE1_LOW -> <<OW0_WRITE1_LOW, OW0_WRITE1_RELEASE, OW0_IDLE>>
      [] k = OW0_READ_LOW -> <<OW0_READ_LOW, OW0_READ_SAMPLE, OW0_READ_RELEASE, OW0_IDLE>>

C19_SlotFamily ==
    slots # <<>> =>
        LET walk == SlotWalk(slots[Len(slots)])
        IN  /\ hops + 1 <= Len(walk)
            /\ state = walk[hops + 1]

C19_Witness ==
    /\ slots = <<OW0_READ_LOW, OW0_READ_LOW>>
    /\ hops = 3
    /\ state = OW0_IDLE
    /\ pc = "r_wait"

\* C20: whenever Operation State is non-idle the compare register holds the
\* interval of that phase: 6 in Write1Low and ReadLow, 60 in Write0Low, 10 in
\* Write0Release, 64 in Write1Release, 9 in ReadSample and 55 in ReadRelease.
PhaseInterval(s) ==
    CASE s = OW0_WRITE1_LOW -> 6
      [] s = OW0_READ_LOW -> 6
      [] s = OW0_WRITE0_LOW -> 60
      [] s = OW0_WRITE0_RELEASE -> 10
      [] s = OW0_WRITE1_RELEASE -> 64
      [] s = OW0_READ_SAMPLE -> 9
      [] s = OW0_READ_RELEASE -> 55

C20_CompareHoldsPhase == state # OW0_IDLE => OCR0A = PhaseInterval(state)

C20_Witness ==
    /\ state = OW0_READ_LOW
    /\ OCR0A = 6
    /\ idx = 1
    /\ isrFrom = OW0_READ_RELEASE
    /\ pc = "r_pull"
====
